---- MODULE Spec2Model ----
(***************************************************************************)
(* GRoot (src/g-root.mjs): a minimal version-control engine.  The model    *)
(* covers the repository layout under .groot (objects, HEAD, index,        *)
(* stash), the working tree, and one command invocation at a time.  Every  *)
(* invocation runs two chains of awaited file operations: the init() chain *)
(* started, but not awaited, by the constructor, and the chain of the      *)
(* command itself.  One action is one awaited file operation, or a run of   *)
(* reads that no other chain can affect.                                   *)
(*                                                                         *)
(* Scope of the inputs: the working tree holds the regular files of Files; *)
(* the files of the .groot directory itself are not enumerated as          *)
(* working-tree paths.                                                     *)
(***************************************************************************)
EXTENDS Integers, Sequences, FiniteSets, TLC

(* ------------------------------ bounds --------------------------------- *)
MaxEntries == 3
MaxCommits == 2
MaxStash == 2
MaxCrashes == 1

(* ------------------------------ values --------------------------------- *)
Files == {"a.txt", "b.txt"}
Contents == {[text |-> "hello"], [text |-> "world"]}
\* what the user writes into the working tree
EditInputs == {<<"a.txt", [text |-> "hello"]>>, <<"a.txt", [text |-> "world"]>>,
               <<"b.txt", [text |-> "hello"]>>}
Messages == {"m"}
\* values new Date().toISOString() may return
Timestamps == {0}
NoFile == [enoent |-> TRUE]
NoData == [none |-> TRUE]

EmptyStr == <<>>
Undefined == <<"undefined">>
Null == <<"null">>
UnknownDigest == <<"sha1", [text |-> "unknown"]>>

Falsy(v) == v = EmptyStr \/ v = Undefined \/ v = Null

\* the modelled working tree has a .grootignore file; its patterns exclude
GrootignoreExists == TRUE
IgnoredPaths == {"b.txt"}

\* mutant: the digest of a commit leaves out its parent
hashObject_NoParent(content) ==
  IF "json" \in DOMAIN content
    THEN <<"sha1", [json |-> [timeStamp |-> content.json.timeStamp,
                              message |-> content.json.message,
                              files |-> content.json.files]]>>
    ELSE <<"sha1", content>>

\* sha1 of the content, taken as collision free: the digest names the content
hashObject(content) == <<"sha1", content>>

\* JSON.stringify of a commit record: a property holding undefined is dropped
JSONstringify(data) ==
  IF data.parent = Undefined
    THEN [json |-> [timeStamp |-> data.timeStamp, message |-> data.message,
                    files |-> data.files]]
    ELSE [json |-> data]

IsJSON(content) == "json" \in DOMAIN content

\* JSON.parse of a stored commit text
JSONparse(content) == content.json

\* commitData.parent after parsing: an absent property reads as undefined
ParentOf(rec) == IF "parent" \in DOMAIN rec THEN rec.parent ELSE Undefined

Put(store, key, content) ==
  [k \in (DOMAIN store) \cup {key} |-> IF k = key THEN content ELSE store[k]]

(* ------------------------------ state ---------------------------------- *)
VARIABLES
  exists,       \* which of "objects", "HEAD", "index", "stash" exist on disk
  objects,      \* .groot/objects: file name (digest) -> stored content
  head,         \* content of .groot/HEAD
  index,        \* content of .groot/index: sequence of [path, hash]
  stash,        \* content of .groot/stash: sequence of [timeStamp, files]
  wt,           \* working tree: file -> content or NoFile
  cmd,          \* the command of the running invocation, "none" when idle
  arg,          \* its argument
  ipc,          \* position of the init() chain
  cpc,          \* position of the command's chain
  ignoreLoaded, \* whether this.ignoreManager holds the patterns
  fileData,     \* add: const fileData
  idx,          \* const index of add / commit / status / stash
  headLocal,    \* parentCommit / currentCommitHash / headCommitHash
  stashLocal,   \* stash: const stash
  commitHash,   \* commit: const commitHash
  commitData,   \* commit: const commitData
  queue,        \* addAll: files still to add
  out,          \* what the command has printed
  history,      \* digests of the commits that completed, oldest first
  crashes       \* how many invocations were killed

disk == <<exists, objects, head, index, stash>>
env == <<wt>>
ghost == <<history, crashes>>
locals == <<fileData, idx, headLocal, stashLocal, commitHash, commitData,
           queue>>
vars == <<exists, objects, head, index, stash, wt, cmd, arg,
          ipc, cpc, ignoreLoaded, fileData, idx, headLocal, stashLocal,
          commitHash, commitData, queue, out, history, crashes>>

NoOut == [kind |-> "none"]

Init ==
  /\ exists = {}
  /\ objects = [k \in {} |-> NoData]
  /\ head = EmptyStr
  /\ index = <<>>
  /\ stash = <<>>
  /\ wt = [f \in Files |-> IF f = "a.txt" THEN [text |-> "hello"] ELSE NoFile]
  /\ cmd = "none"
  /\ arg = EmptyStr
  /\ ipc = "done"
  /\ cpc = "done"
  /\ ignoreLoaded = FALSE
  /\ fileData = NoData
  /\ idx = <<>>
  /\ headLocal = EmptyStr
  /\ stashLocal = <<>>
  /\ commitHash = EmptyStr
  /\ commitData = NoData
  /\ queue = <<>>
  /\ out = NoOut
  /\ history = <<>>
  /\ crashes = 0

Idle == cmd = "none"
Initialised == exists = {"objects", "HEAD", "index", "stash"}

(* --------------------------- environment ------------------------------- *)
\* the user writes a file of the working tree between two invocations
Edit(f, c) ==
  /\ Idle
  /\ wt[f] # c
  /\ wt' = [wt EXCEPT ![f] = c]
  /\ UNCHANGED <<disk, cmd, arg, ipc, cpc, ignoreLoaded, locals, out, ghost>>

(* ------------------------ constructor and init ------------------------- *)
\* new GRoot(): sets the paths, a fresh ignore manager, calls init() without
\* awaiting it; the command's method is then called at once
Launch(c, a, pc0) ==
  /\ Idle
  /\ cmd' = c
  /\ arg' = a
  /\ ipc' = "mkdir"
  /\ cpc' = pc0
  /\ ignoreLoaded' = FALSE
  /\ out' = NoOut
  /\ UNCHANGED <<disk, env, locals, ghost>>

\* mutant: the objects directory is created anew
InitMkdir_Wipe ==
  /\ ipc = "mkdir"
  /\ exists' = exists \cup {"objects"}
  /\ objects' = [k \in {} |-> NoData]
  /\ ipc' = "head"
  /\ UNCHANGED <<head, index, stash, env, cmd, arg, cpc, ignoreLoaded,
                 locals, out, ghost>>

\* init: fs.mkdir(objectsPath, {recursive: true})
InitMkdir ==
  /\ ipc = "mkdir"
  /\ exists' = exists \cup {"objects"}
  /\ ipc' = "head"
  /\ UNCHANGED <<objects, head, index, stash, env, cmd, arg, cpc, ignoreLoaded,
                 locals, out, ghost>>

\* mutant: HEAD is written without the exclusive flag
InitHead_Overwrite ==
  /\ ipc = "head"
  /\ exists' = exists \cup {"HEAD"}
  /\ head' = EmptyStr
  /\ ipc' = "index"
  /\ UNCHANGED <<objects, index, stash, env, cmd, arg, cpc, ignoreLoaded,
                 locals, out, ghost>>

\* writeFile(headPath, "", {flag: "wx"}): fails when the file exists, and the
\* catch returns from init
InitHead ==
  /\ ipc = "head"
  /\ IF "HEAD" \in exists
       THEN /\ ipc' = "done"
            /\ UNCHANGED <<exists, head>>
       ELSE /\ exists' = exists \cup {"HEAD"}
            /\ head' = EmptyStr
            /\ ipc' = "index"
  /\ UNCHANGED <<objects, index, stash, env, cmd, arg, cpc, ignoreLoaded,
                 locals, out, ghost>>

InitIndex ==
  /\ ipc = "index"
  /\ IF "index" \in exists
       THEN /\ ipc' = "done"
            /\ UNCHANGED <<exists, index>>
       ELSE /\ exists' = exists \cup {"index"}
            /\ index' = <<>>
            /\ ipc' = "stash"
  /\ UNCHANGED <<objects, head, stash, env, cmd, arg, cpc, ignoreLoaded,
                 locals, out, ghost>>

InitStash ==
  /\ ipc = "stash"
  /\ IF "stash" \in exists
       THEN /\ ipc' = "done"
            /\ UNCHANGED <<exists, stash>>
       ELSE /\ exists' = exists \cup {"stash"}
            /\ stash' = <<>>
            /\ ipc' = "ignore"
  /\ UNCHANGED <<objects, head, index, env, cmd, arg, cpc, ignoreLoaded,
                 locals, out, ghost>>

\* readFile(.grootignore) and ignoreManager.add; a missing file is ignored
InitIgnore ==
  /\ ipc = "ignore"
  /\ ignoreLoaded' = GrootignoreExists
  /\ ipc' = "done"
  /\ UNCHANGED <<disk, env, cmd, arg, cpc, locals, out, ghost>>

\* program.command("init"): only constructs the object
StartInit ==
  /\ Idle
  /\ Launch("init", EmptyStr, "done")

(* ------------------------------- add ----------------------------------- *)
RECURSIVE SumLen(_)
SumLen(s) == IF s = <<>> THEN 0 ELSE Len(Head(s).files) + SumLen(Tail(s))

CommitObjects == {d \in DOMAIN objects : IsJSON(objects[d])}

\* staged entries held by the index, the stash log and the stored commits
TotalEntries ==
  LET S == CommitObjects
      n == Cardinality(S)
      q == CHOOSE f \in [1..n -> S] : \A i, j \in 1..n : i # j => f[i] # f[j]
  IN  Len(index) + SumLen(stash)
        + SumLen([i \in 1..n |-> JSONparse(objects[q[i]])])

StartAdd ==
  /\ TotalEntries < MaxEntries
  /\ \E a \in Files : Launch("add", a, "add_read")

\* mutant: a file that cannot be read is taken as empty
AddRead_EmptyOnMissing ==
  /\ cpc = "add_read"
  /\ fileData' = IF wt[arg] = NoFile THEN [text |-> ""] ELSE wt[arg]
  /\ cpc' = "add_writeobj"
  /\ UNCHANGED <<disk, env, cmd, arg, ipc, ignoreLoaded, idx, headLocal,
                 stashLocal, commitHash, commitData, queue, out, ghost>>

\* add: fs.readFile(fileToBeAdded); a missing file rejects
AddRead ==
  /\ cpc = "add_read"
  /\ IF wt[arg] = NoFile
       THEN /\ cpc' = "failed"
            /\ UNCHANGED fileData
       ELSE /\ fileData' = wt[arg]
            /\ cpc' = "add_writeobj"
  /\ UNCHANGED <<disk, env, cmd, arg, ipc, ignoreLoaded, idx, headLocal,
                 stashLocal, commitHash, commitData, queue, out, ghost>>

\* mutant: add goes on to the index without having written the object
AddWriteObj_Skip ==
  /\ cpc = "add_writeobj"
  /\ cpc' = IF "objects" \in exists THEN "add_readindex" ELSE "failed"
  /\ UNCHANGED <<disk, env, cmd, arg, ipc, ignoreLoaded, locals, out, ghost>>

\* mutant: the object file is named after the path and the content
AddWriteObj_ByPath ==
  /\ cpc = "add_writeobj"
  /\ IF "objects" \in exists
       THEN /\ objects' =
                 Put(objects,
                     hashObject([text |-> fileData.text, path |-> arg]),
                     fileData)
            /\ cpc' = "add_readindex"
       ELSE /\ cpc' = "failed"
            /\ UNCHANGED objects
  /\ UNCHANGED <<exists, head, index, stash, env, cmd, arg, ipc, ignoreLoaded,
                 locals, out, ghost>>

\* add: fs.writeFile(objects/<fileHash>, fileData)
AddWriteObj ==
  /\ cpc = "add_writeobj"
  /\ IF "objects" \in exists
       THEN /\ objects' = Put(objects, hashObject(fileData), fileData)
            /\ cpc' = "add_readindex"
       ELSE /\ cpc' = "failed"
            /\ UNCHANGED objects
  /\ UNCHANGED <<exists, head, index, stash, env, cmd, arg, ipc, ignoreLoaded,
                 locals, out, ghost>>

\* updateStagingArea: JSON.parse(readFile(indexPath))
AddReadIndex ==
  /\ cpc = "add_readindex"
  /\ IF "index" \in exists
       THEN /\ idx' = index
            /\ cpc' = "add_writeindex"
       ELSE /\ cpc' = "failed"
            /\ UNCHANGED idx
  /\ UNCHANGED <<disk, env, cmd, arg, ipc, ignoreLoaded, fileData, headLocal,
                 stashLocal, commitHash, commitData, queue, out, ghost>>

\* mutant: staging a path replaces the entries the Index has for it
AddWriteIndex_Replace ==
  /\ cpc = "add_writeindex"
  /\ index' = Append(SelectSeq(idx, LAMBDA e : e.path # arg),
                     [path |-> arg, hash |-> hashObject(fileData)])
  /\ exists' = exists \cup {"index"}
  /\ IF queue = <<>>
       THEN /\ cpc' = "done"
            /\ UNCHANGED <<arg, queue>>
       ELSE /\ cpc' = "add_read"
            /\ arg' = Head(queue)
            /\ queue' = Tail(queue)
  /\ UNCHANGED <<objects, head, stash, env, cmd, ipc, ignoreLoaded, fileData,
                 idx, headLocal, stashLocal, commitHash, commitData, out,
                 ghost>>

\* updateStagingArea: index.push({path, hash}); writeFile(indexPath, index);
\* addAll then goes on with its next file
AddWriteIndex ==
  /\ cpc = "add_writeindex"
  /\ index' = Append(idx, [path |-> arg, hash |-> hashObject(fileData)])
  /\ exists' = exists \cup {"index"}
  /\ IF queue = <<>>
       THEN /\ cpc' = "done"
            /\ UNCHANGED <<arg, queue>>
       ELSE /\ cpc' = "add_read"
            /\ arg' = Head(queue)
            /\ queue' = Tail(queue)
  /\ UNCHANGED <<objects, head, stash, env, cmd, ipc, ignoreLoaded, fileData,
                 idx, headLocal, stashLocal, commitHash, commitData, out,
                 ghost>>

(* ------------------------------ addAll --------------------------------- *)
\* ignoreManager.ignores(path): only patterns that were loaded can match
Ignores(f) == ignoreLoaded /\ f \in IgnoredPaths

\* getAllFiles("."): the regular files below the root that are not ignored
getAllFiles == {f \in Files : wt[f] # NoFile /\ ~Ignores(f)}

\* the orders fs.readdir may list a set of files in
Orders(S) == {q \in UNION {[1..n -> S] : n \in {Cardinality(S)}} :
                \A i, j \in 1..Cardinality(S) : i # j => q[i] # q[j]}

StartAddAll ==
  /\ TotalEntries + Cardinality(Files) <= MaxEntries
  /\ Launch("addAll", EmptyStr, "addall_list")

\* addAll: const files = await this.getAllFiles("."), then add() of each
AddAllList ==
  /\ cpc = "addall_list"
  /\ \E q \in Orders(getAllFiles) :
       IF q = <<>>
         THEN /\ cpc' = "done"
              /\ UNCHANGED <<arg, queue>>
         ELSE /\ cpc' = "add_read"
              /\ arg' = Head(q)
              /\ queue' = Tail(q)
  /\ UNCHANGED <<disk, env, cmd, ipc, ignoreLoaded, fileData, idx, headLocal,
                 stashLocal, commitHash, commitData, out, ghost>>

(* ------------------------------ commit --------------------------------- *)
\* getCurrentHead: the content of HEAD, undefined when the read fails
getCurrentHead == IF "HEAD" \in exists THEN head ELSE Undefined

StartCommit ==
  /\ Cardinality(CommitObjects) < MaxCommits
  /\ \E m \in Messages : Launch("commit", m, "commit_readindex")

\* commit: JSON.parse(readFile(indexPath))
CommitReadIndex ==
  /\ cpc = "commit_readindex"
  /\ IF "index" \in exists
       THEN /\ idx' = index
            /\ cpc' = "commit_readhead"
       ELSE /\ cpc' = "failed"
            /\ UNCHANGED idx
  /\ UNCHANGED <<disk, env, cmd, arg, ipc, ignoreLoaded, fileData, headLocal,
                 stashLocal, commitHash, commitData, queue, out, ghost>>

\* mutant: one entry per path is kept, the last one staged
MakeCommitData_LastPerPath(ts, message, files, parentCommit) ==
  [timeStamp |-> ts, message |-> message,
   files |-> SelectSeq(files, LAMBDA e :
               e = files[CHOOSE i \in 1..Len(files) :
                           /\ files[i].path = e.path
                           /\ \A j \in 1..Len(files) :
                                files[j].path = e.path => j <= i]),
   parent |-> parentCommit]

\* mutant: the parent is not recorded
MakeCommitData_NoParent(ts, message, files, parentCommit) ==
  [timeStamp |-> ts, message |-> message, files |-> files,
   parent |-> EmptyStr]

\* the record commit() builds from the index, the message and HEAD
MakeCommitData(ts, message, files, parentCommit) ==
  [timeStamp |-> ts, message |-> message, files |-> files,
   parent |-> parentCommit]

\* commit: parentCommit = await getCurrentHead(), then commitData and its hash
CommitReadHead ==
  /\ cpc = "commit_readhead"
  /\ headLocal' = getCurrentHead
  /\ \E ts \in Timestamps :
       commitData' = MakeCommitData(ts, arg, idx, getCurrentHead)
  /\ commitHash' = hashObject(JSONstringify(commitData'))
  /\ cpc' = "commit_writeobj"
  /\ UNCHANGED <<disk, env, cmd, arg, ipc, ignoreLoaded, fileData, idx,
                 stashLocal, queue, out, ghost>>

\* commit: fs.writeFile(objects/<commitHash>, JSON.stringify(commitData))
\* mutant: the Index is cleared together with the write of the commit object
CommitWriteObj_ClearFirst ==
  /\ cpc = "commit_writeobj"
  /\ IF "objects" \in exists
       THEN /\ objects' = Put(objects, commitHash, JSONstringify(commitData))
            /\ index' = <<>>
            /\ cpc' = "commit_writehead"
       ELSE /\ cpc' = "failed"
            /\ UNCHANGED <<objects, index>>
  /\ UNCHANGED <<exists, head, stash, env, cmd, arg, ipc, ignoreLoaded,
                 locals, out, ghost>>

CommitWriteObj ==
  /\ cpc = "commit_writeobj"
  /\ IF "objects" \in exists
       THEN /\ objects' = Put(objects, commitHash, JSONstringify(commitData))
            /\ cpc' = "commit_writehead"
       ELSE /\ cpc' = "failed"
            /\ UNCHANGED objects
  /\ UNCHANGED <<exists, head, index, stash, env, cmd, arg, ipc, ignoreLoaded,
                 locals, out, ghost>>

\* commit: fs.writeFile(headPath, commitHash)
CommitWriteHead ==
  /\ cpc = "commit_writehead"
  /\ head' = commitHash
  /\ exists' = exists \cup {"HEAD"}
  /\ cpc' = "commit_writeindex"
  /\ UNCHANGED <<objects, index, stash, env, cmd, arg, ipc, ignoreLoaded,
                 locals, out, ghost>>

\* commit: fs.writeFile(indexPath, "[]") and the success message
CommitWriteIndex ==
  /\ cpc = "commit_writeindex"
  /\ index' = <<>>
  /\ exists' = exists \cup {"index"}
  /\ cpc' = "done"
  /\ out' = [kind |-> "commit", hash |-> commitHash]
  /\ history' = Append(history, commitHash)
  /\ UNCHANGED <<objects, head, stash, env, cmd, arg, ipc, ignoreLoaded,
                 locals, crashes>>

(* ------------------------------- stash --------------------------------- *)
StashLen == IF "stash" \in exists THEN Len(stash) ELSE 0

StartStash ==
  /\ StashLen < MaxStash
  /\ Launch("stash", EmptyStr, "stash_readindex")

StashReadIndex ==
  /\ cpc = "stash_readindex"
  /\ IF "index" \in exists
       THEN /\ idx' = index
            /\ cpc' = "stash_readstash"
       ELSE /\ cpc' = "failed"
            /\ UNCHANGED idx
  /\ UNCHANGED <<disk, env, cmd, arg, ipc, ignoreLoaded, fileData, headLocal,
                 stashLocal, commitHash, commitData, queue, out, ghost>>

\* mutant: the new entry starts a fresh log instead of extending the read one
StashReadStash_Fresh ==
  /\ cpc = "stash_readstash"
  /\ IF "stash" \in exists
       THEN /\ \E ts \in Timestamps :
                 stashLocal' = <<[timeStamp |-> ts, files |-> idx]>>
            /\ cpc' = "stash_writestash"
       ELSE /\ cpc' = "failed"
            /\ UNCHANGED stashLocal
  /\ UNCHANGED <<disk, env, cmd, arg, ipc, ignoreLoaded, fileData, idx,
                 headLocal, commitHash, commitData, queue, out, ghost>>

\* stash: JSON.parse(readFile(stashPath)), then stash.push({timeStamp, files})
StashReadStash ==
  /\ cpc = "stash_readstash"
  /\ IF "stash" \in exists
       THEN /\ \E ts \in Timestamps :
                 stashLocal' = Append(stash, [timeStamp |-> ts, files |-> idx])
            /\ cpc' = "stash_writestash"
       ELSE /\ cpc' = "failed"
            /\ UNCHANGED stashLocal
  /\ UNCHANGED <<disk, env, cmd, arg, ipc, ignoreLoaded, fileData, idx,
                 headLocal, commitHash, commitData, queue, out, ghost>>

\* stash: fs.writeFile(stashPath, JSON.stringify(stash))
StashWriteStash ==
  /\ cpc = "stash_writestash"
  /\ stash' = stashLocal
  /\ exists' = exists \cup {"stash"}
  /\ cpc' = "stash_writeindex"
  /\ UNCHANGED <<objects, head, index, env, cmd, arg, ipc, ignoreLoaded,
                 locals, out, ghost>>

\* stash: fs.writeFile(indexPath, "[]") and the success message
StashWriteIndex ==
  /\ cpc = "stash_writeindex"
  /\ index' = <<>>
  /\ exists' = exists \cup {"index"}
  /\ cpc' = "done"
  /\ out' = [kind |-> "stash"]
  /\ UNCHANGED <<objects, head, stash, env, cmd, arg, ipc, ignoreLoaded,
                 locals, ghost>>

(* -------------------------------- log ---------------------------------- *)
StartLog ==
  /\ Idle
  /\ Launch("log", EmptyStr, "log_readhead")

\* log: currentCommitHash = await getCurrentHead(); while (currentCommitHash)
LogReadHead ==
  /\ cpc = "log_readhead"
  /\ headLocal' = getCurrentHead
  /\ out' = [kind |-> "log", commits |-> <<>>]
  /\ cpc' = IF Falsy(getCurrentHead) THEN "done" ELSE "log_read"
  /\ UNCHANGED <<disk, env, cmd, arg, ipc, ignoreLoaded, fileData, idx,
                 stashLocal, commitHash, commitData, queue, ghost>>

\* mutant: the commits are collected oldest first
LogRead_OldestFirst ==
  /\ cpc = "log_read"
  /\ IF "objects" \in exists /\ headLocal \in DOMAIN objects
          /\ IsJSON(objects[headLocal])
       THEN LET parent == ParentOf(JSONparse(objects[headLocal]))
            IN  /\ out' = [out EXCEPT !.commits = <<headLocal>> \o @]
                /\ headLocal' = parent
                /\ cpc' = IF Falsy(parent) THEN "done" ELSE "log_read"
       ELSE /\ cpc' = "failed"
            /\ UNCHANGED <<out, headLocal>>
  /\ UNCHANGED <<disk, env, cmd, arg, ipc, ignoreLoaded, fileData, idx,
                 stashLocal, commitHash, commitData, queue, ghost>>

\* log, one turn of the loop: read and parse the object, print it, go on with
\* its parent; a missing object rejects
LogRead ==
  /\ cpc = "log_read"
  /\ IF "objects" \in exists /\ headLocal \in DOMAIN objects
          /\ IsJSON(objects[headLocal])
       THEN LET parent == ParentOf(JSONparse(objects[headLocal]))
            IN  /\ out' = [out EXCEPT !.commits = Append(@, headLocal)]
                /\ headLocal' = parent
                /\ cpc' = IF Falsy(parent) THEN "done" ELSE "log_read"
       ELSE /\ cpc' = "failed"
            /\ UNCHANGED <<out, headLocal>>
  /\ UNCHANGED <<disk, env, cmd, arg, ipc, ignoreLoaded, fileData, idx,
                 stashLocal, commitHash, commitData, queue, ghost>>

(* ------------------------------- status -------------------------------- *)
StartStatus ==
  /\ Idle
  /\ Launch("status", EmptyStr, "status_readindex")

StatusReadIndex ==
  /\ cpc = "status_readindex"
  /\ IF "index" \in exists
       THEN /\ idx' = index
            /\ cpc' = "status_readhead"
       ELSE /\ cpc' = "failed"
            /\ UNCHANGED idx
  /\ UNCHANGED <<disk, env, cmd, arg, ipc, ignoreLoaded, fileData, headLocal,
                 stashLocal, commitHash, commitData, queue, out, ghost>>

\* status: headCommitHash = await getCurrentHead(); headCommitData is the parsed
\* commit, or {files: []} for a falsy hash; a missing object parses to null,
\* and reading null.files throws
StatusReadHead ==
  /\ cpc = "status_readhead"
  /\ headLocal' = getCurrentHead
  /\ IF Falsy(getCurrentHead)
       THEN /\ commitData' = [files |-> <<>>]
            /\ cpc' = "status_list"
       ELSE IF "objects" \in exists /\ getCurrentHead \in DOMAIN objects
                 /\ IsJSON(objects[getCurrentHead])
              THEN /\ commitData' = JSONparse(objects[getCurrentHead])
                   /\ cpc' = "status_list"
              ELSE /\ cpc' = "failed"
                   /\ UNCHANGED commitData
  /\ UNCHANGED <<disk, env, cmd, arg, ipc, ignoreLoaded, fileData, idx,
                 stashLocal, commitHash, queue, out, ghost>>

\* headFiles: acc[file.path] = file.hash over the files in order, so a later
\* entry of a path overwrites an earlier one; an absent key reads undefined
HeadFiles(files, p) ==
  LET I == {i \in 1..Len(files) : files[i].path = p}
  IN  IF I = {} THEN Undefined
      ELSE files[CHOOSE i \in I : \A j \in I : j <= i].hash

\* index.find((stagedFile) => stagedFile.path === file)
InIndex(entries, p) == \E i \in 1..Len(entries) : entries[i].path = p

\* status: "Changes not staged for commit"
ModifiedTest(entries, files, p) ==
  /\ ~InIndex(entries, p)
  /\ HeadFiles(files, p) # hashObject(wt[p])

\* status: "Untracked files"
UntrackedTest(entries, files, p) ==
  /\ ~InIndex(entries, p)
  /\ Falsy(HeadFiles(files, p))

\* status: list and hash the working tree, then print the three sections
StatusList ==
  /\ cpc = "status_list"
  /\ LET currentFiles == getAllFiles
     IN  out' = [kind |-> "status",
                 staged |-> [i \in 1..Len(idx) |-> idx[i].path],
                 modified |-> {p \in currentFiles :
                                 ModifiedTest(idx, commitData.files, p)},
                 untracked |-> {p \in currentFiles :
                                  UntrackedTest(idx, commitData.files, p)}]
  /\ cpc' = "done"
  /\ UNCHANGED <<disk, env, cmd, arg, ipc, ignoreLoaded, locals, ghost>>

(* -------------------------------- show --------------------------------- *)
\* diffLines for the one-line texts of Contents
diffLines(old, new) ==
  IF old = new THEN <<[tag |-> "unchanged", value |-> old]>>
  ELSE <<[tag |-> "removed", value |-> old], [tag |-> "added", value |-> new]>>

\* parentCommitData.files.find((file) => file.path === filePath): 0 for none
FindEntry(files, p) ==
  LET I == {i \in 1..Len(files) : files[i].path = p}
  IN  IF I = {} THEN 0 ELSE CHOOSE i \in I : \A j \in I : i <= j

\* the objects showCommitDiff reads for one file entry can all be read
ShowReadable(rec, file) ==
  /\ file.hash \in DOMAIN objects
  /\ ~Falsy(ParentOf(rec)) =>
       /\ ParentOf(rec) \in DOMAIN objects
       /\ IsJSON(objects[ParentOf(rec)])
       /\ LET pfiles == JSONparse(objects[ParentOf(rec)]).files
              k == FindEntry(pfiles, file.path)
          IN  k # 0 => pfiles[k].hash \in DOMAIN objects

\* mutant: a path the parent does not have is diffed against the empty text
ShowFile_DiffEmpty(rec, file) ==
  IF Falsy(ParentOf(rec))
    THEN [path |-> file.path, signal |-> "First Commit", hunks |-> <<>>]
    ELSE LET pfiles == JSONparse(objects[ParentOf(rec)]).files
             k == FindEntry(pfiles, file.path)
         IN  [path |-> file.path, signal |-> "Diff",
              hunks |-> diffLines(IF k # 0 THEN objects[pfiles[k].hash]
                                  ELSE [text |-> ""],
                                  objects[file.hash])]

\* what showCommitDiff prints for one file entry of the commit
ShowFile(rec, file) ==
  IF Falsy(ParentOf(rec))
    THEN [path |-> file.path, signal |-> "First Commit", hunks |-> <<>>]
    ELSE LET pfiles == JSONparse(objects[ParentOf(rec)]).files
             k == FindEntry(pfiles, file.path)
         IN  IF k # 0
               THEN [path |-> file.path, signal |-> "Diff",
                     hunks |-> diffLines(objects[pfiles[k].hash],
                                         objects[file.hash])]
               ELSE [path |-> file.path, signal |-> "New files in this commit",
                     hunks |-> <<>>]

\* digests given to show: the stored commits, a file blob, an unknown digest
ShowArgs == CommitObjects \cup {hashObject([text |-> "hello"]), UnknownDigest}

StartShow ==
  /\ Idle
  /\ \E d \in ShowArgs : Launch("show", d, "show_read")

\* showCommitDiff: getCommitData gives null for an unreadable object, which
\* parses to null: "Commit not found"; a stored text that is no JSON throws
ShowRead ==
  /\ cpc = "show_read"
  /\ IF ~("objects" \in exists /\ arg \in DOMAIN objects)
       THEN /\ out' = [kind |-> "show", found |-> FALSE, files |-> <<>>]
            /\ cpc' = "done"
       ELSE IF ~IsJSON(objects[arg])
         THEN /\ cpc' = "failed"
              /\ UNCHANGED out
         ELSE LET rec == JSONparse(objects[arg])
              IN  IF \A i \in 1..Len(rec.files) :
                       ShowReadable(rec, rec.files[i])
                    THEN /\ out' = [kind |-> "show", found |-> TRUE,
                                    files |-> [i \in 1..Len(rec.files) |->
                                                 ShowFile(rec, rec.files[i])]]
                         /\ cpc' = "done"
                    ELSE /\ cpc' = "failed"
                         /\ UNCHANGED out
  /\ UNCHANGED <<disk, env, cmd, arg, ipc, ignoreLoaded, locals, ghost>>

(* ------------------------- end of an invocation ------------------------ *)
\* the process ends when both chains have ended; a rejected command is an
\* unhandled rejection, which ends the process whatever init() has reached
Terminate ==
  /\ cmd' = "none"
  /\ arg' = EmptyStr
  /\ ipc' = "done"
  /\ cpc' = "done"
  /\ ignoreLoaded' = FALSE
  /\ fileData' = NoData
  /\ idx' = <<>>
  /\ headLocal' = EmptyStr
  /\ stashLocal' = <<>>
  /\ commitHash' = EmptyStr
  /\ commitData' = NoData
  /\ queue' = <<>>
  /\ out' = NoOut
  /\ UNCHANGED <<disk, env, history>>

Exit ==
  /\ ~Idle
  /\ \/ cpc = "done" /\ ipc = "done"
     \/ cpc = "failed"
  /\ Terminate
  /\ UNCHANGED crashes

\* the process is killed between two file operations
Crash ==
  /\ ~Idle
  /\ ~(cpc = "done" /\ ipc = "done")
  /\ cpc # "failed"
  /\ crashes < MaxCrashes
  /\ crashes' = crashes + 1
  /\ Terminate

Next ==
  \/ \E e \in EditInputs : Edit(e[1], e[2])
  \/ StartInit
  \/ InitMkdir \/ InitHead \/ InitIndex \/ InitStash \/ InitIgnore
  \/ StartAdd
  \/ AddRead \/ AddWriteObj \/ AddReadIndex \/ AddWriteIndex
  \/ StartAddAll \/ AddAllList
  \/ StartCommit
  \/ CommitReadIndex \/ CommitReadHead \/ CommitWriteObj \/ CommitWriteHead
  \/ CommitWriteIndex
  \/ StartStash
  \/ StashReadIndex \/ StashReadStash \/ StashWriteStash \/ StashWriteIndex
  \/ StartLog \/ LogReadHead \/ LogRead
  \/ StartStatus \/ StatusReadIndex \/ StatusReadHead \/ StatusList
  \/ StartShow \/ ShowRead
  \/ Exit

Spec == Init /\ [][Next]_vars

NextCrash == Next \/ Crash

SpecCrash == Init /\ [][NextCrash]_vars

\* staging and committing under crashes: the commands that write the Index
\* and HEAD, with the process killed between any two file operations; the
\* working tree stays as it is at the start
NextCommitCrash ==
  \/ StartInit
  \/ InitMkdir \/ InitHead \/ InitIndex \/ InitStash \/ InitIgnore
  \/ StartAdd
  \/ AddRead \/ AddWriteObj \/ AddReadIndex \/ AddWriteIndex
  \/ StartCommit
  \/ CommitReadIndex \/ CommitReadHead \/ CommitWriteObj \/ CommitWriteHead
  \/ CommitWriteIndex
  \/ Crash
  \/ Exit

SpecCommitCrash == Init /\ [][NextCommitCrash]_vars

(* ------------------- a repository damaged from outside ----------------- *)
\* nothing is missing yet: every digest the index, the stash log, HEAD and
\* the stored commits (files and parent) hold names a stored object
IntactStore ==
  /\ \A i \in 1..Len(index) : index[i].hash \in DOMAIN objects
  /\ \A i \in 1..Len(stash) : \A j \in 1..Len(stash[i].files) :
       stash[i].files[j].hash \in DOMAIN objects
  /\ head = EmptyStr \/ head \in DOMAIN objects
  /\ \A c \in CommitObjects :
       LET rec == JSONparse(objects[c])
       IN  /\ \A j \in 1..Len(rec.files) : rec.files[j].hash \in DOMAIN objects
           /\ rec.parent = EmptyStr \/ rec.parent \in DOMAIN objects

\* an object file is removed from outside the program (corruption, external
\* tampering), between two invocations; one loss is modelled
Tamper(d) ==
  /\ Idle
  /\ d \in DOMAIN objects
  /\ IntactStore
  /\ objects' = [k \in (DOMAIN objects) \ {d} |-> objects[k]]
  /\ UNCHANGED <<exists, head, index, stash, env, cmd, arg, ipc, cpc,
                 ignoreLoaded, locals, out, ghost>>

LoseObject ==
  /\ Idle
  /\ \E d \in DOMAIN objects : Tamper(d)

\* the commands that write and read the commit graph, on a store that may
\* lose objects
NextTamper ==
  \/ InitMkdir \/ InitHead \/ InitIndex \/ InitStash \/ InitIgnore
  \/ StartAdd
  \/ AddRead \/ AddWriteObj \/ AddReadIndex \/ AddWriteIndex
  \/ StartCommit
  \/ CommitReadIndex \/ CommitReadHead \/ CommitWriteObj \/ CommitWriteHead
  \/ CommitWriteIndex
  \/ StartLog \/ LogReadHead \/ LogRead
  \/ StartShow \/ ShowRead
  \/ LoseObject
  \/ Exit

SpecTamper == Init /\ [][NextTamper]_vars

(* ============================== claims ================================= *)
\* HEAD as the commands see it: an absent file and an empty file are both
\* the state "no commit yet"
HeadState == IF "HEAD" \in exists THEN head ELSE EmptyStr

Reverse(q) == [i \in 1..Len(q) |-> q[Len(q) + 1 - i]]

NoDuplicates(q) == \A i, j \in 1..Len(q) : i # j => q[i] # q[j]

StatusDone == cmd = "status" /\ cpc = "done"

(* C1 -- stated as in the claim: in every status run no working-tree path is
   printed both under "Changes not staged for commit" and under "Untracked
   files", and a path that is not in the Index and has no entry in the HEAD
   commit is printed only as untracked.  The code prints such a path in both
   sections. *)
C1_StatusPartition ==
  StatusDone =>
    /\ out.modified \cap out.untracked = {}
    /\ \A p \in getAllFiles :
         (~InIndex(idx, p) /\ HeadFiles(commitData.files, p) = Undefined)
           => (p \in out.untracked /\ p \notin out.modified)

CommitDone == cmd = "commit" /\ cpc = "done"

(* C2 -- when commit has completed, the object stored under the new digest
   parses to a record whose files are the Index as commit read it, entry for
   entry and in order; HEAD holds that digest; the Index is the empty
   sequence. *)
C2_CommitStoresIndex ==
  CommitDone =>
    /\ "objects" \in exists /\ commitHash \in DOMAIN objects
    /\ IsJSON(objects[commitHash])
    /\ JSONparse(objects[commitHash]).files = idx
    /\ "HEAD" \in exists /\ head = commitHash
    /\ "index" \in exists /\ index = <<>>

C2_Witness ==
  /\ CommitDone
  /\ Len(idx) = 2 /\ idx[1].path = idx[2].path /\ idx[1].hash # idx[2].hash
  /\ Len(history) = 2

\* the digests the entries of a file list refer to
HashesOf(files) == {files[i].hash : i \in 1..Len(files)}

(* C3 -- in every reachable state, the states between the single file writes
   of add, commit and stash included, every digest in an Index entry, in the
   files of a stored commit, in a stash entry or in HEAD names an object of
   the object store. *)
C3_ReferencesResolve ==
  /\ HashesOf(index) \subseteq DOMAIN objects
  /\ \A d \in CommitObjects :
       HashesOf(JSONparse(objects[d]).files) \subseteq DOMAIN objects
  /\ \A i \in 1..Len(stash) : HashesOf(stash[i].files) \subseteq DOMAIN objects
  /\ ~Falsy(HeadState) => HeadState \in DOMAIN objects

C3_Witness ==
  /\ cpc = "commit_writehead"
  /\ commitHash \in DOMAIN objects /\ head # commitHash
  /\ idx # <<>> /\ index = idx
  /\ stash # <<>> /\ stash[1].files # <<>>

\* the parent stored in the commit that this invocation has just written
WrittenParent == ParentOf(JSONparse(objects[commitHash]))

(* C4 -- stated as in the claim: the commit written while HEAD was empty has
   parent = null, and every other commit has the digest HEAD held as its
   parent.  Checked in the state right after the object is written, where
   HEAD still holds what it held when the commit started. *)
C4_ParentNullOnFirst ==
  cpc = "commit_writehead" =>
    /\ Falsy(HeadState) <=> WrittenParent = Null
    /\ ~Falsy(HeadState) => WrittenParent = HeadState

(* C4, amended -- the commit written while HEAD was empty has the empty
   string as parent (what HEAD holds then), never null and never a dropped
   property; every other commit has the digest HEAD held as its parent; the
   parent of every stored commit is empty or names a stored commit. *)
C4_ParentIsHead ==
  /\ cpc = "commit_writehead" =>
       /\ WrittenParent = HeadState
       /\ Falsy(HeadState) <=> WrittenParent = EmptyStr
       /\ WrittenParent # Null /\ WrittenParent # Undefined
  /\ \A d \in CommitObjects :
       LET p == ParentOf(JSONparse(objects[d]))
       IN  p = EmptyStr \/ p \in CommitObjects

C4_Witness ==
  /\ cpc = "commit_writehead"
  /\ ~Falsy(HeadState)
  /\ WrittenParent = HeadState
  /\ ParentOf(JSONparse(objects[HeadState])) = EmptyStr

\* the walk of log from h ends at a commit without parent within n reads
RECURSIVE WalkEnds(_, _)
WalkEnds(h, n) ==
  IF Falsy(h) THEN TRUE
  ELSE IF n = 0 \/ h \notin CommitObjects THEN FALSE
  ELSE WalkEnds(ParentOf(JSONparse(objects[h])), n - 1)

(* C5 -- log terminates from the HEAD of every reachable state: the walk
   along the parents from HEAD reaches a commit without parent within as
   many reads as there are stored commits, so it meets no commit twice, and
   a running log has printed no commit twice. *)
C5_LogTerminates ==
  /\ WalkEnds(HeadState, Cardinality(CommitObjects))
  /\ cmd = "log" /\ out # NoOut => NoDuplicates(out.commits)

C5_Witness ==
  /\ cmd = "log" /\ cpc = "done"
  /\ Len(out.commits) = 2
  /\ Cardinality(CommitObjects) = 2

(* C6 -- after a run in which n commits completed, log prints exactly those
   n commits, each once, the newest first; with an empty HEAD it prints
   nothing; it never fails. *)
C6_LogNewestFirst ==
  cmd = "log" =>
    /\ cpc # "failed"
    /\ cpc = "done" =>
         /\ out.commits = Reverse(history)
         /\ NoDuplicates(out.commits)
         /\ Falsy(HeadState) => out.commits = <<>>

C6_Witness ==
  /\ cmd = "log" /\ cpc = "done"
  /\ Len(history) = 2
  /\ out.commits = <<history[2], history[1]>>

(* C7 -- HEAD changes only in the step of commit that writes it: no step of
   init, add, stash, status, log or show changes it, and once HEAD holds a
   digest no step makes it empty again. *)
C7_HeadOnlyByCommit ==
  [][/\ HeadState' # HeadState =>
          /\ cmd = "commit" /\ cpc = "commit_writehead"
          /\ HeadState' = commitHash
     /\ ~Falsy(HeadState) => ~Falsy(HeadState')]_vars

C7_Witness ==
  /\ cmd = "init" /\ ipc = "done"
  /\ ~Falsy(HeadState)
  /\ index # <<>>

(* C8 -- stash appends one entry to the end of the stash log, with the files
   the Index holds at that time, keeps the earlier entries as they are,
   empties the Index, and changes neither HEAD nor the object store. *)
C8_StashAppends ==
  /\ [](cmd = "stash" /\ cpc = "done" =>
          /\ index = <<>>
          /\ stash # <<>>
          /\ stash[Len(stash)].files = idx)
  /\ [][cmd = "stash" =>
          /\ objects' = objects
          /\ HeadState' = HeadState
          /\ stash' # stash =>
               /\ cpc = "stash_writestash"
               /\ \E ts \in Timestamps :
                    stash' = Append(stash, [timeStamp |-> ts, files |-> index])
          /\ index' # index => (cpc = "stash_writeindex" /\ index' = <<>>)]_vars

C8_Witness ==
  /\ cmd = "stash" /\ cpc = "done"
  /\ Len(stash) = 2
  /\ stash[1].files # <<>> /\ stash[2].files # <<>>
  /\ ~Falsy(HeadState)

FileBlobs == {d \in DOMAIN objects : ~IsJSON(objects[d])}

(* C9 -- every object is stored under the digest of its own content, no two
   objects hold the same content, a completed add finds its content stored,
   and no step removes or changes an object once written. *)
C9_ContentAddressed ==
  /\ [](/\ \A d \in DOMAIN objects : d = hashObject(objects[d])
        /\ \A d1, d2 \in DOMAIN objects :
             objects[d1] = objects[d2] => d1 = d2
        /\ (cmd \in {"add", "addAll"} /\ cpc = "done" /\ fileData # NoData) =>
             /\ hashObject(fileData) \in DOMAIN objects
             /\ objects[hashObject(fileData)] = fileData
             /\ Cardinality({d \in FileBlobs : objects[d] = fileData}) = 1)
  /\ [][\A d \in DOMAIN objects :
          d \in DOMAIN objects' /\ objects'[d] = objects[d]]_vars

C9_Witness ==
  /\ cmd = "add" /\ cpc = "done"
  /\ Len(index) = 2
  /\ index[1].path # index[2].path /\ index[1].hash = index[2].hash
  /\ Cardinality(FileBlobs) = 1

(* C10 -- status, log and show are read-only: in an initialised repository
   no step of such an invocation, the steps of its init() chain included,
   changes the object store, the Index, HEAD, the stash log or the layout. *)
C10_ReadOnly ==
  [][(cmd \in {"status", "log", "show"} /\ Initialised) =>
       disk' = disk]_vars

C10_Witness ==
  /\ cmd = "status" /\ cpc = "done" /\ ipc = "done"
  /\ Initialised
  /\ index # <<>> /\ stash # <<>> /\ ~Falsy(HeadState)

ShowDone == cmd = "show" /\ cpc = "done" /\ out.found

\* the commit show was asked for, and the file list of its parent commit
ShownCommit == JSONparse(objects[arg])
ShownParentFiles == JSONparse(objects[ParentOf(ShownCommit)]).files

(* C11 -- in show(D), a file entry of D whose path has no entry in the file
   list of D's parent commit gets the "new file" signal and no hunks; hunks
   are printed only for a path that has an entry in the parent commit. *)
C11_NewFileSignal ==
  ShowDone =>
    \A i \in 1..Len(out.files) :
      LET hasParent == ~Falsy(ParentOf(ShownCommit))
          inParent == /\ hasParent
                      /\ \E j \in 1..Len(ShownParentFiles) :
                           ShownParentFiles[j].path = ShownCommit.files[i].path
      IN  /\ out.files[i].path = ShownCommit.files[i].path
          /\ (hasParent /\ ~inParent) =>
               /\ out.files[i].signal = "New files in this commit"
               /\ out.files[i].hunks = <<>>
          /\ out.files[i].hunks # <<>> => inParent

C11_Witness ==
  /\ ShowDone
  /\ Len(out.files) = 2
  /\ out.files[1].signal = "New files in this commit"
  /\ out.files[2].signal = "Diff"

(* C12 -- stated as in the claim: once the init() chain of an init command
   has completed, the objects directory, HEAD, index and stash all exist,
   whatever part of the layout existed before.  The code leaves init at the
   first exclusive write that fails, so with HEAD present a missing index
   or stash is never created. *)
C12_InitCompletesLayout ==
  (cmd = "init" /\ ipc = "done") => Initialised

(* C13 -- stated as in the claim: when log or show needs a commit whose
   object is not in the store, the command reports it and stops; it does
   not end in an uncaught failure.  show reports an unknown digest, but a
   missing HEAD or parent object makes log reject, and a missing parent
   object makes show throw. *)
C13_MissingCommitReported ==
  /\ (cmd = "show" /\ cpc = "done" /\ arg \notin DOMAIN objects) => ~out.found
  /\ (cmd = "log" /\ cpc = "failed") => headLocal \in DOMAIN objects
  /\ (cmd = "show" /\ cpc = "failed" /\ arg \in DOMAIN objects
        /\ IsJSON(objects[arg]) /\ ~Falsy(ParentOf(ShownCommit)))
       => ParentOf(ShownCommit) \in DOMAIN objects

AddOfMissingPath == cmd = "add" /\ wt[arg] = NoFile

(* C14 -- add of a path that is not in the working tree fails at its first
   read: it never reaches the object write or the index, and in an
   initialised repository no step of the invocation changes the object
   store, the Index, HEAD, the stash log or the layout. *)
C14_AddMissingPathFails ==
  /\ [](AddOfMissingPath => cpc \in {"add_read", "failed"})
  /\ [][(AddOfMissingPath /\ Initialised) => disk' = disk]_vars
  /\ [][(AddOfMissingPath /\ cpc = "add_read" /\ cpc' # cpc)
          => cpc' = "failed"]_vars

C14_Witness ==
  /\ AddOfMissingPath /\ cpc = "failed" /\ ipc = "done"
  /\ Initialised
  /\ index # <<>> /\ ~Falsy(HeadState)

\* the commit has read the Index into idx and has not ended
CommitUnderWay ==
  /\ cmd = "commit"
  /\ cpc \in {"commit_readhead", "commit_writeobj", "commit_writehead",
              "commit_writeindex", "done"}

HeadCommitFiles ==
  IF head \in DOMAIN objects /\ IsJSON(objects[head])
    THEN JSONparse(objects[head]).files
    ELSE <<>>

CrashStep == crashes' = crashes + 1

(* C15 -- a commit killed between its writes loses no staged entry: at every
   point of a commit the entries it read from the Index are still the Index
   or are the file list of the commit HEAD names, a kill changes nothing on
   disk, the Index changes only once the commit object is stored and HEAD
   names it, and after a kill that came before the clear the Index still
   holds the entries HEAD's commit already has, which the next commit
   stores again. *)
C15_CrashLosesNoEntry ==
  /\ [](CommitUnderWay =>
          \/ index = idx
          \/ head = commitHash /\ HeadCommitFiles = idx)
  /\ [][CrashStep => disk' = disk]_vars
  /\ [][(cmd = "commit" /\ index' # index) =>
          /\ commitHash \in DOMAIN objects
          /\ objects[commitHash] = JSONstringify(commitData)
          /\ head = commitHash]_vars
  /\ [][(CrashStep /\ cmd = "commit" /\ cpc = "commit_writeindex") =>
          /\ index' = idx
          /\ HeadCommitFiles' = idx]_vars
  /\ []((cmd = "commit" /\ cpc = "done") => HeadCommitFiles = idx)

\* a commit completed after a kill, storing again what its parent holds
C15_Witness ==
  /\ cmd = "commit" /\ cpc = "done" /\ crashes = 1
  /\ idx # <<>>
  /\ ~Falsy(commitData.parent)
  /\ commitData.parent \in DOMAIN objects
  /\ JSONparse(objects[commitData.parent]).files = idx

\* the index of the last entry of a file list for a path, 0 for none
LastEntry(files, p) ==
  LET I == {i \in 1..Len(files) : files[i].path = p}
  IN  IF I = {} THEN 0 ELSE CHOOSE i \in I : \A j \in I : j <= i

(* C16 -- stated as in the claim: the parent version show compares a file
   with is the blob of the LAST entry for that path in the parent commit's
   file list, and there is none when the parent has no entry for the path.
   The code takes the first matching entry (Array.prototype.find), so a
   parent commit holding two entries of one path with different digests
   refutes it. *)
C16_ParentVersionIsLastEntry ==
  (ShowDone /\ ~Falsy(ParentOf(ShownCommit))) =>
    \A i \in 1..Len(out.files) :
      LET file == ShownCommit.files[i]
          k == LastEntry(ShownParentFiles, file.path)
      IN  IF k = 0
            THEN out.files[i].hunks = <<>>
            ELSE out.files[i].hunks =
                   diffLines(objects[ShownParentFiles[k].hash],
                             objects[file.hash])

(* C17 -- a successful add(p) appends exactly one entry (p, digest of p's
   content) at the end of the Index and keeps the earlier entries and their
   order, also when p is already staged; an add changes the Index at no other
   step, and the file list a commit stores is the Index with every one of
   these entries. *)
C17_AddAppendsOneEntry ==
  /\ [][(cmd \in {"add", "addAll"} /\ cpc = "add_writeindex" /\ cpc' # cpc)
          => index' = Append(index, [path |-> arg,
                                     hash |-> hashObject(wt[arg])])]_vars
  /\ [][(cmd \in {"add", "addAll"} /\ index' # index)
          => cpc = "add_writeindex"]_vars
  /\ []((cmd = "commit" /\ cpc = "commit_writeobj")
          => commitData.files = index)

\* a path staged a second time: two entries for it, in the order of the adds
C17_Witness ==
  /\ cmd = "add" /\ cpc = "done"
  /\ Len(index) = 2
  /\ index[1].path = arg /\ index[2].path = arg
  /\ index[1].hash # index[2].hash
  /\ index[2].hash = hashObject(wt[arg])

\* the steps of a command that read or write the repository state
RepoAccessPcs ==
  {"add_writeobj", "add_readindex", "add_writeindex",
   "commit_readindex", "commit_readhead", "commit_writeobj",
   "commit_writehead", "commit_writeindex",
   "stash_readindex", "stash_readstash", "stash_writestash",
   "stash_writeindex",
   "log_readhead", "log_read", "status_readindex", "status_readhead",
   "show_read"}

(* C18 -- stated as in the claim: the init() chain the constructor starts
   has ended before any step of the command reads or writes the repository
   state, and no command fails while that chain is still running.  The
   constructor does not await init(), so the command's first access can come
   before the layout exists. *)
C18_InitBeforeCommand ==
  /\ [][(cpc \in RepoAccessPcs /\ cpc' # cpc) => ipc = "done"]_vars
  /\ [][~(cpc \in RepoAccessPcs /\ cpc' = "failed" /\ exists = {})]_vars

(* C19 -- stated as in the claim: whenever the ignore-rules file exists, the
   init() chain of an invocation ends with the patterns loaded, and what
   status then lists under Modified and Untracked holds no ignored path.  The
   code loads the patterns only after the three exclusive-create writes have
   succeeded, so in an initialised repository they are never loaded. *)
C19_IgnoreRulesLoaded ==
  /\ []((~Idle /\ ipc = "done" /\ GrootignoreExists) => ignoreLoaded)
  /\ [][(cpc = "status_list" /\ cpc' = "done" /\ ipc = "done"
           /\ GrootignoreExists)
          => (out'.modified \cup out'.untracked) \cap IgnoredPaths = {}]_vars

\* the digest most recently committed for path p: the last entry for p in the
\* nearest commit, walking the parents from h, that has one; n bounds the walk
RECURSIVE LastCommitted(_, _, _)
LastCommitted(p, h, n) ==
  IF Falsy(h) \/ n = 0 \/ h \notin CommitObjects THEN Undefined
  ELSE LET rec == JSONparse(objects[h])
       IN  IF HeadFiles(rec.files, p) # Undefined
             THEN HeadFiles(rec.files, p)
             ELSE LastCommitted(p, ParentOf(rec), n - 1)

(* C20 -- stated as in the claim: a path that is not in the Index and whose
   working-tree content is the content most recently committed for it is
   printed by status neither under "Changes not staged for commit" nor
   under "Untracked files", however many commits came after the one that
   holds it.  The code compares with the file list of the HEAD commit only,
   and a commit lists only what was staged for it. *)
C20_UnchangedCommittedPathIsClean ==
  StatusDone =>
    \A p \in Files :
      (/\ wt[p] # NoFile
       /\ ~InIndex(index, p)
       /\ LastCommitted(p, HeadState, Cardinality(CommitObjects))
            = hashObject(wt[p]))
        => p \notin (out.modified \cup out.untracked)
====
